---- MODULE Spec2Model ----
(***************************************************************************)
(* Model of src/email-parser.py: the ingestion pipeline main(), its usage  *)
(* ledger UsageTracker, the store adapters check_email_exists and          *)
(* upsert_email and the classifier adapter get_gptzero_scores.             *)
(*                                                                         *)
(* The mailbox, the record store and the classifier are external: what     *)
(* they answer is drawn from small sets at the step that calls them.       *)
(* One action per step of main(); pc is the position of main().            *)
(***************************************************************************)
EXTENDS Integers, Sequences, FiniteSets, TLC

VARIABLES
    pc,               \* position of main()
    messages,         \* results.get('messages', []), as the list of ids (line 141)
    i,                \* 1-based index of the loop at line 156
    store,            \* the 'emails' table: message_id -> row
    word_count,       \* UsageTracker.word_count
    word_limit,       \* UsageTracker.word_limit
    emails_processed, \* UsageTracker.emails_processed
    stats,            \* the stats dict of main() (lines 149-154)
    exists,           \* local of main() (line 159)
    has_scores,       \* local of main() (line 159)
    sender,           \* local of main() (line 168)
    body,             \* local of main() (line 169)
    email_data,       \* local of main() (lines 189-201)
    response,         \* local of get_gptzero_scores (line 96)
    result,           \* local of main() (line 206)
    spy,              \* number of calls made to each collaborator so far
    at_start          \* stats, ledger and spy as the current iteration began

vars == <<pc, messages, i, store, word_count, word_limit, emails_processed,
          stats, exists, has_scores, sender, body, email_data, response,
          result, spy, at_start>>

----------------------------------------------------------------------------
(* Bounds of the model *)

\* longest candidate list the mailbox returns
MaxMessages == 2
\* most words in a message body
MaxWords == 2
\* largest word ceiling a ledger is constructed with
MaxWordLimit == 2

----------------------------------------------------------------------------
(* Values *)

\* Python's None, SQL null
None == "None"

\* message identities
Ids == {"A", "B"}

\* a body of n two-letter words separated by single blanks
WordsBody(n) == [k \in 1..(3 * n - 1) |-> IF k % 3 = 0 THEN " " ELSE "w"]

\* message bodies: empty, blank only, and 1..MaxWords words
Bodies == {<<>>, <<" ">>} \cup {WordsBody(n) : n \in 1..MaxWords}

\* values of the From header; '' when the header is missing (line 168)
Senders == {"", "a@x.org"}

\* a row already in the table before the run
OldBody == <<"o", "l", "d">>
OldSender == "old@x.org"

\* class_probabilities of a 200 response: a key may be missing or null
ClassProbabilities ==
    { [ai |-> "0.8", human |-> "0.2"],
      [human |-> "0.2"],
      [ai |-> None, human |-> "0.2"],
      [ai |-> "0.8", human |-> None] }

\* what requests.post does: a response with a status code, or an exception
Responses ==
    { [kind |-> "200", scores |-> s] : s \in ClassProbabilities }
    \cup { [kind |-> "429"], [kind |-> "500"], [kind |-> "exception"] }

\* the columns of the table besides the key
Columns == {"sender", "body", "gpt_zero_ai", "gpt_zero_human"}

NoData == [message_id |-> None]

NoResponse == [kind |-> None]

CandidateLists == UNION { [1..n -> Ids] : n \in 0..MaxMessages }

InitialRows ==
    { [sender |-> OldSender, body |-> OldBody, gpt_zero_ai |-> None, gpt_zero_human |-> None],
      [sender |-> OldSender, body |-> OldBody, gpt_zero_ai |-> "0.5", gpt_zero_human |-> "0.5"] }

InitialStores == UNION { [S -> InitialRows] : S \in SUBSET Ids }

----------------------------------------------------------------------------
(* Pure functions *)

IsWordChar(c) == c \in {"w", "o", "l", "d", "_"}

\* re.findall(r'\b\w+\b', text): one match per maximal run of word characters
count_words(text) ==
    Cardinality({ k \in 1..Len(text) :
                    /\ IsWordChar(text[k])
                    /\ (k = 1 \/ ~IsWordChar(text[k - 1])) })

\* a stored row is taken as scored without looking at its scores
check_email_exists_AnyRow(ok, message_id) ==
    IF ok /\ message_id \in DOMAIN store
    THEN <<TRUE, TRUE>>
    ELSE <<FALSE, FALSE>>

\* check_email_exists: (exists, has_scores); a failing query yields (False, False)
check_email_exists(ok, message_id) ==
    IF ok /\ message_id \in DOMAIN store
    THEN <<TRUE, store[message_id].gpt_zero_ai # None
                 /\ store[message_id].gpt_zero_human # None>>
    ELSE <<FALSE, FALSE>>

\* dict.get(key, 0)
Get(d, key) == IF key \in DOMAIN d THEN d[key] ELSE "0"

\* a failed call yields the defaults of scores.get instead of (None, None)
gptzero_scores_ZeroOnError(resp) ==
    IF resp.kind = "200"
    THEN <<Get(resp.scores, "ai"), Get(resp.scores, "human")>>
    ELSE <<"0", "0">>

\* the pair get_gptzero_scores returns for a response (lines 95-109)
gptzero_scores(resp) ==
    IF resp.kind = "200"
    THEN <<Get(resp.scores, "ai"), Get(resp.scores, "human")>>
    ELSE <<None, None>>

\* the scores are attached when either of them is there
BothScores_Either(ai_score, human_score) == ai_score # None \/ human_score # None

\* line 197
BothScores(ai_score, human_score) == ai_score # None /\ human_score # None

\* the quota check lets through a total one word over the limit
ExceedsLimit_OffByOne(total_after) == total_after > word_limit + 1

\* the quota check also refuses a total that is exactly the limit
ExceedsLimit_AtLeast(total_after) == total_after >= word_limit

\* line 182
ExceedsLimit(total_after) == total_after > word_limit

\* the table after upsert(email_data, on_conflict='message_id'): the supplied
\* columns are written, the others keep their value (null in a new row)
UpsertRow(data) ==
    [c \in Columns |->
        IF c \in DOMAIN data THEN data[c]
        ELSE IF data.message_id \in DOMAIN store THEN store[data.message_id][c]
        ELSE None]

Upserted(data) ==
    [id \in DOMAIN store \cup {data.message_id} |->
        IF id = data.message_id THEN UpsertRow(data) ELSE store[id]]

Bump(key) == [stats EXCEPT ![key] = @ + 1]

NoCalls == [lookup |-> 0, fetch |-> 0, classify |-> 0, upsert |-> 0, sleep |-> 0]

Called(op) == [spy EXCEPT ![op] = @ + 1]

----------------------------------------------------------------------------
(* State machine of main() *)

Init ==
    /\ pc = "init"
    /\ messages = <<>>
    /\ i = 1
    /\ store \in InitialStores
    /\ word_count = 0
    /\ word_limit \in 1..MaxWordLimit
    /\ emails_processed = 0
    /\ stats = [processed |-> 0, skipped_existing |-> 0,
                skipped_rate_limit |-> 0, errors |-> 0]
    /\ exists = FALSE
    /\ has_scores = FALSE
    /\ sender = ""
    /\ body = <<>>
    /\ email_data = NoData
    /\ response = NoResponse
    /\ result = None
    /\ spy = NoCalls
    /\ at_start = [stats |-> stats, word_count |-> 0, emails_processed |-> 0,
                   spy |-> spy]

ledger == <<word_count, word_limit, emails_processed>>
locals == <<exists, has_scores, sender, body, email_data, response, result>>

\* the locals of an iteration are dead once it ends: each is assigned again
\* before it is read
ClearLocals ==
    /\ exists' = FALSE
    /\ has_scores' = FALSE
    /\ sender' = ""
    /\ body' = <<>>
    /\ email_data' = NoData
    /\ response' = NoResponse
    /\ result' = None

\* the loop goes over the same candidate again
Continue_Revisit ==
    /\ i' = i
    /\ pc' = "lookup"
    /\ ClearLocals
    /\ at_start' = [stats |-> stats', word_count |-> word_count',
                    emails_processed |-> emails_processed', spy |-> spy']

\* next iteration of the for loop (line 156), or the code after it
Continue ==
    /\ i' = i + 1
    /\ pc' = IF i + 1 > Len(messages) THEN "report" ELSE "lookup"
    /\ ClearLocals
    /\ at_start' = [stats |-> stats', word_count |-> word_count',
                    emails_processed |-> emails_processed', spy |-> spy']

\* lines 134-137: the collaborators are set up, or the failure is re-raised
\* (lines 234-236)
Initialize ==
    /\ pc = "init"
    /\ \E ok \in BOOLEAN : pc' = IF ok THEN "list" ELSE "fatal"
    /\ UNCHANGED <<messages, i, store, ledger, stats, locals, spy, at_start>>

\* a failed listing is taken for an empty mailbox
ListCandidates_EmptyOnFailure ==
    /\ pc = "list"
    /\ \/ /\ pc' = "no_messages"
          /\ UNCHANGED messages
       \/ \E ms \in CandidateLists :
            /\ messages' = ms
            /\ pc' = IF ms = <<>> THEN "no_messages" ELSE "lookup"
    /\ UNCHANGED <<i, store, ledger, stats, locals, spy, at_start>>

\* lines 139-147: the listing fails (re-raised, lines 234-236), or returns
\* the candidates; main() returns at once when there are none
ListCandidates ==
    /\ pc = "list"
    /\ \/ /\ pc' = "fatal"
          /\ UNCHANGED messages
       \/ \E ms \in CandidateLists :
            /\ messages' = ms
            /\ pc' = IF ms = <<>> THEN "no_messages" ELSE "lookup"
    /\ UNCHANGED <<i, store, ledger, stats, locals, spy, at_start>>

\* lines 158-164
CheckExists ==
    /\ pc = "lookup"
    /\ spy' = Called("lookup")
    /\ UNCHANGED <<messages, store, ledger>>
    /\ \E ok \in BOOLEAN :
         LET r == check_email_exists(ok, messages[i]) IN
         IF r[1] /\ r[2]
         THEN /\ stats' = Bump("skipped_existing")
              /\ Continue
         ELSE /\ exists' = r[1]
              /\ has_scores' = r[2]
              /\ pc' = "fetch"
              /\ UNCHANGED <<stats, i, sender, body, email_data, response,
                             result, at_start>>

\* a failing fetch is not caught per item: it reaches the handler of main()
FetchMessage_Abort ==
    /\ pc = "fetch"
    /\ spy' = Called("fetch")
    /\ UNCHANGED <<messages, store, ledger>>
    /\ \/ /\ pc' = "fatal"
          /\ UNCHANGED <<stats, i, locals, at_start>>
       \/ \E s \in Senders, b \in Bodies :
            IF b = <<>>
            THEN /\ stats' = Bump("errors")
                 /\ Continue
            ELSE /\ sender' = s
                 /\ body' = b
                 /\ pc' = "quota"
                 /\ UNCHANGED <<stats, i, exists, has_scores, email_data,
                                response, result, at_start>>

\* the check for an empty body (line 171) is missing
FetchMessage_KeepEmpty ==
    /\ pc = "fetch"
    /\ spy' = Called("fetch")
    /\ UNCHANGED <<messages, store, ledger>>
    /\ \/ /\ stats' = Bump("errors")
          /\ Continue
       \/ \E s \in Senders, b \in Bodies :
            /\ sender' = s
            /\ body' = b
            /\ pc' = "quota"
            /\ UNCHANGED <<stats, i, exists, has_scores, email_data,
                           response, result, at_start>>

\* lines 166-174; when the fetch raises, lines 214-217
FetchMessage ==
    /\ pc = "fetch"
    /\ spy' = Called("fetch")
    /\ UNCHANGED <<messages, store, ledger>>
    /\ \/ /\ stats' = Bump("errors")
          /\ Continue
       \/ \E s \in Senders, b \in Bodies :
            IF b = <<>>
            THEN /\ stats' = Bump("errors")
                 /\ Continue
            ELSE /\ sender' = s
                 /\ body' = b
                 /\ pc' = "quota"
                 /\ UNCHANGED <<stats, i, exists, has_scores, email_data,
                                response, result, at_start>>

\* the quota check skips the item (continue) where the code leaves the loop
QuotaCheck_SkipItem ==
    /\ pc = "quota"
    /\ UNCHANGED <<messages, store, ledger, stats, spy>>
    /\ IF ExceedsLimit(word_count + count_words(body))
       THEN Continue
       ELSE /\ pc' = "classify"
            /\ email_data' = [message_id |-> messages[i], sender |-> sender,
                              body |-> body]
            /\ UNCHANGED <<i, exists, has_scores, sender, body, response,
                           result, at_start>>

\* the record is persisted right after the quota check, before any scoring
QuotaCheck_PersistFirst ==
    /\ pc = "quota"
    /\ LET words == count_words(body)
           total_after == word_count + words IN
       IF ExceedsLimit(total_after)
       THEN /\ pc' = "report"
            /\ UNCHANGED email_data
       ELSE /\ pc' = "upsert"
            /\ email_data' = [message_id |-> messages[i], sender |-> sender,
                              body |-> body]
    /\ UNCHANGED <<messages, i, store, ledger, stats, exists, has_scores,
                   sender, body, response, result, spy, at_start>>

\* lines 179-193: break when the projected total exceeds the limit
QuotaCheck ==
    /\ pc = "quota"
    /\ LET words == count_words(body)
           total_after == word_count + words IN
       IF ExceedsLimit(total_after)
       THEN /\ pc' = "report"
            /\ UNCHANGED email_data
       ELSE /\ pc' = "classify"
            /\ email_data' = [message_id |-> messages[i], sender |-> sender,
                              body |-> body]
    /\ UNCHANGED <<messages, i, store, ledger, stats, exists, has_scores,
                   sender, body, response, result, spy, at_start>>

\* the words are assigned where the code adds them (= for +=)
add_usage_Overwrite(text) ==
    /\ word_count' = count_words(text)
    /\ emails_processed' = emails_processed + 1
    /\ UNCHANGED word_limit

\* the words are added but the item is not counted
add_usage_WordsOnly(text) ==
    /\ word_count' = word_count + count_words(text)
    /\ UNCHANGED <<emails_processed, word_limit>>

\* UsageTracker.add_usage (lines 35-39)
add_usage(text) ==
    /\ word_count' = word_count + count_words(text)
    /\ emails_processed' = emails_processed + 1
    /\ UNCHANGED word_limit

\* lines 195-204, with get_gptzero_scores (lines 78-109): the usage is
\* added before the request is posted
Score ==
    /\ pc = "classify"
    /\ IF ~has_scores
       THEN \E resp \in Responses :
              LET r == gptzero_scores(resp) IN
              /\ add_usage(body)
              /\ spy' = Called("classify")
              /\ response' = resp
              /\ IF BothScores(r[1], r[2])
                 THEN /\ email_data' = [gpt_zero_ai |-> r[1], gpt_zero_human |-> r[2]]
                                          @@ email_data
                      /\ stats' = Bump("processed")
                 ELSE /\ stats' = Bump("skipped_rate_limit")
                      /\ UNCHANGED email_data
       ELSE UNCHANGED <<ledger, spy, response, email_data, stats>>
    /\ pc' = "upsert"
    /\ UNCHANGED <<messages, i, store, exists, has_scores, sender, body,
                   result, at_start>>

\* the record is sent with every column, the missing ones as null
upsert_email_AllColumns(ok, data) ==
    /\ store' = IF ok
                THEN Upserted([c \in Columns \ DOMAIN data |-> None] @@ data)
                ELSE store
    /\ result' = IF ok THEN "APIResponse" ELSE None
    /\ spy' = Called("upsert")

\* upsert_email (lines 121-130): the table is written, or the failure is
\* printed and None returned
upsert_email(ok, data) ==
    /\ store' = IF ok THEN Upserted(data) ELSE store
    /\ result' = IF ok THEN "APIResponse" ELSE None
    /\ spy' = Called("upsert")

\* upsert_email lets the failure out: the handler at lines 214-217 counts it
\* and the pacing delay is skipped
Persist_Unhandled ==
    /\ pc = "upsert"
    /\ UNCHANGED <<messages, ledger>>
    /\ \E ok \in BOOLEAN :
         IF ok
         THEN /\ upsert_email(ok, email_data)
              /\ pc' = "sleep"
              /\ UNCHANGED <<i, stats, exists, has_scores, sender, body,
                             email_data, response, at_start>>
         ELSE /\ spy' = Called("upsert")
              /\ UNCHANGED store
              /\ stats' = Bump("errors")
              /\ Continue

\* lines 206-210
Persist ==
    /\ pc = "upsert"
    /\ \E ok \in BOOLEAN : upsert_email(ok, email_data)
    /\ pc' = "sleep"
    /\ UNCHANGED <<messages, i, ledger, stats, exists, has_scores, sender,
                   body, email_data, response, at_start>>

\* the delay is taken only when the item was scored
Pace_OnlyWhenScored ==
    /\ pc = "sleep"
    /\ spy' = IF stats.processed > at_start.stats.processed
              THEN Called("sleep") ELSE spy
    /\ UNCHANGED <<messages, store, ledger, stats>>
    /\ Continue

\* line 212
Pace ==
    /\ pc = "sleep"
    /\ spy' = Called("sleep")
    /\ UNCHANGED <<messages, store, ledger, stats>>
    /\ Continue

\* lines 219-232
Report ==
    /\ pc = "report"
    /\ pc' = "done"
    /\ UNCHANGED <<messages, i, store, ledger, stats, locals, spy, at_start>>

Next ==
    \/ Initialize
    \/ ListCandidates
    \/ CheckExists
    \/ FetchMessage
    \/ QuotaCheck
    \/ Score
    \/ Persist
    \/ Pace
    \/ Report

Spec == Init /\ [][Next]_vars

\* main() is the only thread of control and every external call returns or
\* raises: the run takes its next step whenever it has one
SpecFair == Spec /\ WF_vars(Next)

----------------------------------------------------------------------------
(* Properties *)

\* the loop was left by the break at line 187
QuotaHalted == pc \in {"report", "done"} /\ i <= Len(messages)

\* the classifier has been called for the current item
Submitted == spy.classify > at_start.spy.classify

\* the classifier answered RateLimited (429) or Error (other status, exception)
ClassifierFailed == response.kind \in {"429", "500", "exception"}

RowHasScores(id) ==
    /\ id \in DOMAIN store
    /\ store[id].gpt_zero_ai # None
    /\ store[id].gpt_zero_human # None

(* C1: the ledger's word_count never exceeds word_limit; the projected total
   is within the limit whenever the classifier is about to be called, and the
   classifier was called (and the ledger charged) only for an item whose
   projected total was within the limit. *)
C1_LedgerWithinCeiling ==
    /\ word_count <= word_limit
    /\ pc = "classify" => word_count + count_words(body) <= word_limit
    /\ (Submitted \/ word_count # at_start.word_count)
          => at_start.word_count + count_words(body) <= word_limit

\* two charges have brought the ledger exactly to its ceiling
C1_Witness == word_count = word_limit /\ spy.classify = 2 /\ at_start.word_count > 0

(* C2: an identity whose row in the store carries both scores is never
   submitted to the classifier, whatever the collaborators answer. *)
C2_ScoredNeverSubmitted ==
    [][spy'.classify > spy.classify => ~RowHasScores(messages[i])]_vars

(* C3: when the classifier call of an item ends RateLimited or Error, the
   ledger's word_count and emails_processed are what they were before the
   item. *)
C3_FailedCallLeavesLedger ==
    (Submitted /\ ClassifierFailed)
        => /\ word_count = at_start.word_count
           /\ emails_processed = at_start.emails_processed

(* C4: when the upsert of an item fails, the failure is caught, the errors
   counter is one above its value at the start of the item when the item's
   iteration ends, and the loop goes on. *)
C4_UpsertFailureCountedErrored ==
    [][(pc = "sleep" /\ result = None)
          => /\ stats'.errors = at_start.stats.errors + 1
             /\ pc' \in {"lookup", "report"}
             /\ i' = i + 1]_vars

(* C5: an item reaches the quota check with projected total
   word_count + count_words(body).  If it is greater than word_limit the run
   halts and the item caused no classifier call, no upsert, no ledger change
   and no statistics change; if it is at most word_limit (equal included)
   the item goes to the classifier, the classifier is called once for it,
   and on success word_count is the projected total. *)
C5_QuotaBoundary ==
    /\ QuotaHalted =>
          /\ word_count + count_words(body) > word_limit
          /\ spy.classify = at_start.spy.classify
          /\ spy.upsert = at_start.spy.upsert
          /\ word_count = at_start.word_count
          /\ emails_processed = at_start.emails_processed
          /\ stats = at_start.stats
    /\ pc = "classify" =>
          /\ word_count + count_words(body) <= word_limit
          /\ ~has_scores
          /\ ~Submitted
    /\ pc \in {"upsert", "sleep"} =>
          /\ at_start.word_count + count_words(body) <= word_limit
          /\ spy.classify = at_start.spy.classify + 1
          /\ "gpt_zero_ai" \in DOMAIN email_data
                => word_count = at_start.word_count + count_words(body)

\* an item whose projected total was exactly the limit was scored, and the
\* next item halted the run
C5_Witness ==
    /\ QuotaHalted
    /\ word_count = word_limit
    /\ stats.processed = 1
    /\ count_words(body) = 1

(* C6: the quota overshoot halts the run: the step from the quota check of
   an item whose projected total exceeds the limit goes to the report with
   nothing else changed, and from then on no identity is looked up, fetched,
   classified or upserted, the statistics stay as they were and the run ends
   at the report (never in a raised failure). *)
C6_QuotaHaltsRun ==
    [][/\ (pc = "quota" /\ word_count + count_words(body) > word_limit)
             => /\ pc' = "report"
                /\ UNCHANGED <<i, messages, store, ledger, stats, spy>>
       /\ QuotaHalted
             => /\ pc' = "done"
                /\ UNCHANGED <<i, messages, store, ledger, stats, spy>>]_vars

\* the run has ended at the report after a halt on the first of two
\* identities: the second was never looked up
C6_Witness ==
    /\ QuotaHalted
    /\ pc = "done"
    /\ i < Len(messages)
    /\ spy.lookup = i
    /\ spy.fetch = i

(* C7: when the classifier answers RateLimited or Error for an item, the
   record handed to the upsert holds the identity, the sender and the body
   and neither score, skipped_rate_limit is one above its value at the start
   of the item, processed is unchanged, and the upsert is called once. *)
C7_FailedCallPersistsUnscored ==
    (Submitted /\ ClassifierFailed) =>
        /\ pc \in {"upsert", "sleep"}
        /\ email_data = [message_id |-> messages[i], sender |-> sender,
                         body |-> body]
        /\ stats.skipped_rate_limit = at_start.stats.skipped_rate_limit + 1
        /\ stats.processed = at_start.stats.processed
        /\ spy.upsert = at_start.spy.upsert + (IF pc = "sleep" THEN 1 ELSE 0)
        /\ (pc = "sleep" /\ result # None) =>
              /\ messages[i] \in DOMAIN store
              /\ store[messages[i]].sender = sender
              /\ store[messages[i]].body = body

\* a new row was written without scores after a failed classifier call
C7_Witness ==
    /\ pc = "sleep"
    /\ ClassifierFailed
    /\ result # None
    /\ store[messages[i]].gpt_zero_ai = None
    /\ store[messages[i]].gpt_zero_human = None
    /\ count_words(body) > 0

Min(a, b) == IF a < b THEN a ELSE b

(* C8: no item-local failure ends the run.  The loop is left before the end
   of the candidate list only by the quota halt; a raised failure happens
   only before any identity is touched; every identity up to the current one
   has been looked up in turn; and wherever the run has not ended, a next
   step exists. *)
C8_ItemFailuresDoNotStopRun ==
    /\ pc \in {"report", "done"} =>
          \/ i = Len(messages) + 1
          \/ /\ i <= Len(messages)
             /\ body # <<>>
             /\ word_count + count_words(body) > word_limit
    /\ pc = "fatal" => (spy = NoCalls /\ i = 1)
    /\ pc = "lookup" => (i <= Len(messages) /\ spy.lookup = i - 1)
    /\ pc \in {"fetch", "quota", "classify", "upsert", "sleep"} =>
          (i <= Len(messages) /\ spy.lookup = i)
    /\ pc \in {"report", "done"} => spy.lookup = Min(i, Len(messages))
    /\ pc \notin {"done", "fatal", "no_messages"} => ENABLED Next

\* the second identity is being fetched after the first one failed
C8_Witness == i = 2 /\ pc = "fetch" /\ stats.errors = 1

RowOK(row) == (row.gpt_zero_ai = None) <=> (row.gpt_zero_human = None)

(* C9: every record handed to the upsert carries both scores (neither of
   them null) or neither, and every row of the store, which starts with
   both-or-neither rows, has both scores or neither. *)
C9_BothOrNeither ==
    /\ pc \in {"upsert", "sleep"} =>
          /\ ("gpt_zero_ai" \in DOMAIN email_data)
                <=> ("gpt_zero_human" \in DOMAIN email_data)
          /\ "gpt_zero_ai" \in DOMAIN email_data =>
                (email_data.gpt_zero_ai # None /\ email_data.gpt_zero_human # None)
    /\ \A id \in DOMAIN store : RowOK(store[id])

\* the run has written one row with both scores and one row with neither
C9_Witness ==
    /\ DOMAIN store = Ids
    /\ store["A"].gpt_zero_ai = "0" /\ store["A"].gpt_zero_human = "0.2"
    /\ store["B"].gpt_zero_ai = None /\ store["B"].gpt_zero_human = None
    /\ store["B"].sender # OldSender

Total(st) == st.processed + st.skipped_existing + st.skipped_rate_limit + st.errors

StatKeys == {"processed", "skipped_existing", "skipped_rate_limit", "errors"}

(* C10: the statistics are accumulated once per identity.  The step that
   ends the iteration of an identity leaves exactly one of the four counters
   one above its value at the start of the iteration and the others as they
   were; the four counters add up to the number of identities whose
   iteration has ended (i - 1), plus the current identity once its outcome
   is recorded and only its upsert and pacing are left; the item that
   triggers the quota halt adds nothing. *)
C10_OneCountPerIdentity ==
    /\ [](/\ pc \in {"init", "list", "fatal", "no_messages"} => Total(stats) = 0
          /\ pc \in {"lookup", "fetch", "quota", "classify", "report", "done"}
                => (Total(stats) = i - 1 /\ stats = at_start.stats)
          /\ pc \in {"upsert", "sleep"} => Total(stats) = i)
    /\ [][i' = i + 1 =>
            \E k \in StatKeys : stats' = [at_start.stats EXCEPT ![k] = @ + 1]]_vars

\* two identities have been processed with different outcomes
C10_Witness ==
    /\ pc = "done"
    /\ i = 3
    /\ stats.processed = 1
    /\ stats.errors = 1

(* C11: the skip outcomes have no side effects.  An identity the lookup
   reports as stored with both scores never goes on to the fetch: its
   iteration ends at the lookup, counted as skipped_existing alone, with no
   fetch, no classifier call, no upsert, the store and the ledger as they
   were.  An iteration that ends at the fetch (empty body, or the fetch
   raised) is counted as errors alone, with no classifier call, no upsert,
   the store and the ledger as they were; no empty body reaches the quota
   check. *)
C11_SkipsHaveNoSideEffects ==
    /\ [](/\ pc = "fetch" => ~(exists /\ has_scores)
          /\ pc \in {"quota", "classify", "upsert", "sleep"} => body # <<>>)
    /\ [][/\ (pc = "lookup" /\ i' = i + 1) =>
               /\ RowHasScores(messages[i])
               /\ stats' = [at_start.stats EXCEPT !.skipped_existing = @ + 1]
               /\ spy' = [at_start.spy EXCEPT !.lookup = @ + 1]
               /\ UNCHANGED <<store, ledger>>
          /\ (pc = "lookup" /\ pc' = "fetch") =>
               /\ exists' => messages[i] \in DOMAIN store
               /\ exists' => ~RowHasScores(messages[i])
               /\ ~has_scores'
          /\ (pc = "fetch" /\ i' = i + 1) =>
               /\ stats' = [at_start.stats EXCEPT !.errors = @ + 1]
               /\ spy' = [at_start.spy EXCEPT !.lookup = @ + 1, !.fetch = @ + 1]
               /\ UNCHANGED <<store, ledger>>]_vars

\* a run over an already scored identity and an identity without content has
\* ended with no classifier call and no upsert
C11_Witness ==
    /\ pc = "done"
    /\ stats.skipped_existing = 1
    /\ stats.errors = 1
    /\ spy.fetch = 1
    /\ spy.classify = 0
    /\ spy.upsert = 0
    /\ word_count = 0

(* C12: the ledger starts at zero; every charge adds exactly the word count
   of the text to word_count and one to emails_processed; nothing else
   changes them; so word_count is the sum of the word counts charged, and it
   never decreases from one state to the next. *)
C12_LedgerIsSumOfCharges ==
    /\ [](/\ pc \in {"init", "list", "fatal", "no_messages"} =>
                (word_count = 0 /\ emails_processed = 0)
          /\ word_count = at_start.word_count
                            + (IF Submitted THEN count_words(body) ELSE 0))
    /\ [][/\ spy'.classify = spy.classify + 1 =>
               /\ word_count' = word_count + count_words(body)
               /\ emails_processed' = emails_processed + 1
          /\ spy'.classify = spy.classify =>
               UNCHANGED <<word_count, emails_processed>>
          /\ word_count' >= word_count
          /\ word_limit' = word_limit]_vars

\* a second charge of one word has brought the ledger from one word to two
C12_Witness ==
    /\ Submitted
    /\ at_start.word_count = 1
    /\ count_words(body) = 1
    /\ word_count = 2
    /\ emails_processed = 2

(* C13: the upsert is keyed by identity and idempotent.  A successful upsert
   leaves exactly one row for the identity of the record and the other rows
   as they were; in that row the columns the record supplies hold the
   record's values and the others keep the value they had (null in a new
   row); and upserting the same record once more would leave the store as it
   is. *)
C13_UpsertIdempotentByIdentity ==
    [][(pc = "upsert" /\ result' # None) =>
          LET id == email_data.message_id IN
          /\ id = messages[i]
          /\ DOMAIN store' = DOMAIN store \cup {id}
          /\ \A o \in DOMAIN store \ {id} : store'[o] = store[o]
          /\ \A c \in Columns \cap DOMAIN email_data :
                store'[id][c] = email_data[c]
          /\ \A c \in Columns \ DOMAIN email_data :
                store'[id][c] = IF id \in DOMAIN store THEN store[id][c] ELSE None
          /\ Upserted(email_data)' = store']_vars

\* the same identity was upserted twice in the run: the second record, without
\* scores, replaced the sender and the body and kept the scores of the first
C13_Witness ==
    /\ pc = "sleep"
    /\ result # None
    /\ i = 2
    /\ messages[1] = messages[2]
    /\ "gpt_zero_ai" \notin DOMAIN email_data
    /\ store[messages[i]].gpt_zero_ai = "0.8"
    /\ store[messages[i]].gpt_zero_human = "0.2"
    /\ store[messages[i]].body = body
    /\ store[messages[i]].sender = sender

(* C14: a row persisted without scores by an earlier run (the store a run
   starts from holds such rows, and the ledger starts at zero) is picked up
   again.  Its identity is not skipped as already scored: the lookup step
   goes on to the fetch with the statistics as they were; the fetch is made;
   when the quota check passes the classifier is called; and after a
   successful classification and a successful upsert the stored row carries
   both scores. *)
C14_UnscoredRowIsPickedUp ==
    /\ [](/\ pc = "classify" => ~has_scores
          /\ (pc = "sleep" /\ result # None
                /\ stats.processed > at_start.stats.processed)
                => RowHasScores(messages[i]))
    /\ [][/\ (pc = "lookup" /\ messages[i] \in DOMAIN store
                /\ ~RowHasScores(messages[i]))
               => (pc' = "fetch" /\ i' = i /\ stats' = stats)
          /\ pc = "fetch" => spy'.fetch = spy.fetch + 1
          /\ (pc = "quota" /\ word_count + count_words(body) <= word_limit)
               => (pc' = "classify" /\ i' = i)
          /\ pc = "classify" =>
               (spy'.classify = spy.classify + 1 /\ pc' = "upsert")
          /\ pc = "upsert" => spy'.upsert = spy.upsert + 1]_vars

\* the first identity of a run was found stored without scores, was scored
\* under the fresh ledger, and its row now carries both scores
C14_Witness ==
    /\ pc = "sleep"
    /\ i = 1
    /\ exists
    /\ ~has_scores
    /\ at_start.word_count = 0
    /\ result # None
    /\ RowHasScores(messages[i])
    /\ store[messages[i]].gpt_zero_ai = "0.8"

\* the calls made for the current item so far
Done(op) == spy[op] - at_start.spy[op]

(* C15: the steps of an item come in the order lookup, fetch, quota check,
   classifier call, upsert, pacing delay, each at most once: every step
   leads to the next one of the same item or ends the item, an upsert is
   made only after the item's classifier call and a classifier call only
   after its quota check has passed, and an item begins only when every
   step of the item before it is over. *)
C15_PerItemOrder ==
    /\ [](/\ \A op \in DOMAIN spy : Done(op) \in {0, 1}
          /\ Done("sleep") <= Done("upsert")
          /\ Done("upsert") <= Done("classify")
          /\ Done("classify") <= Done("fetch")
          /\ Done("fetch") <= Done("lookup")
          /\ pc = "lookup" => spy = at_start.spy
          /\ Submitted => at_start.word_count + count_words(body) <= word_limit)
    /\ [][/\ pc = "lookup" =>
               /\ spy' = Called("lookup")
               /\ \/ pc' = "fetch" /\ i' = i
                  \/ pc' \in {"lookup", "report"} /\ i' = i + 1
          /\ pc = "fetch" =>
               /\ spy' = Called("fetch")
               /\ \/ pc' = "quota" /\ i' = i
                  \/ pc' \in {"lookup", "report"} /\ i' = i + 1
          /\ pc = "quota" =>
               (spy' = spy /\ pc' \in {"classify", "report"} /\ i' = i)
          /\ pc = "classify" =>
               (spy' = Called("classify") /\ pc' = "upsert" /\ i' = i)
          /\ pc = "upsert" =>
               (spy' = Called("upsert") /\ pc' = "sleep" /\ i' = i)
          /\ pc = "sleep" =>
               /\ spy' = Called("sleep")
               /\ pc' \in {"lookup", "report"} /\ i' = i + 1
          /\ pc' = "lookup" => (i' <= Len(messages') /\ spy' = at_start'.spy)]_vars

\* the second item has gone through all its steps after the first had
C15_Witness ==
    /\ pc = "sleep"
    /\ i = 2
    /\ spy = [lookup |-> 2, fetch |-> 2, classify |-> 2, upsert |-> 2, sleep |-> 1]

(* C16 as stated: the pacing delay occurs after an item only when that item
   was successfully processed (scored), never after an item whose outcome is
   a skip. *)
C16_DelayOnlyAfterProcessed ==
    pc = "sleep" => stats.processed > at_start.stats.processed

(* C16 amended: the pacing delay occurs after exactly the items that reach
   the upsert, that is the items whose classifier call was made, whether the
   call gave scores (scored) or failed (skippedQuotaOrRateLimit) and whether
   or not the upsert succeeded; it does not occur after an item skipped as
   already scored, with an empty body or a failed fetch, nor after the item
   that halts the run at the quota check. *)
C16_DelayAfterEveryUpsert ==
    /\ [](pc = "sleep" =>
            /\ Done("upsert") = 1
            /\ Submitted
            /\ \/ stats.processed = at_start.stats.processed + 1
               \/ stats.skipped_rate_limit = at_start.stats.skipped_rate_limit + 1)
    /\ [][/\ pc = "upsert" => pc' = "sleep"
          /\ spy'.sleep # spy.sleep =>
               (pc = "sleep" /\ spy'.sleep = spy.sleep + 1 /\ i' = i + 1)
          /\ i' = i + 1 =>
               /\ spy'.sleep = spy.sleep + 1 <=> Done("upsert") = 1
               /\ spy'.sleep = spy.sleep + 1 <=>
                    (stats.processed + stats.skipped_rate_limit
                       > at_start.stats.processed + at_start.stats.skipped_rate_limit)
               /\ (stats.skipped_existing > at_start.stats.skipped_existing
                     \/ stats.errors > at_start.stats.errors)
                    => spy'.sleep = spy.sleep
          /\ (pc = "quota" /\ pc' = "report") => spy' = spy]_vars

\* the delay was taken after a first item whose classifier call failed
C16_Witness ==
    /\ pc = "lookup"
    /\ i = 2
    /\ spy.sleep = 1
    /\ stats.skipped_rate_limit = 1
    /\ stats.processed = 0

\* the candidates have been listed
Listed == pc \notin {"init", "list", "fatal"}

(* C17 as stated: once the candidates are listed, whatever the list and the
   collaborator outcomes, the run does not end anywhere but at its
   end-of-run report. *)
C17_RunEndsAtReport ==
    (Listed /\ ~ENABLED Next) => pc = "done"

(* C17 amended: the run always terminates; the candidates are listed once,
   each one is visited at most once, in list order, with no revisit and no
   retry; for every non-empty candidate list and every combination of
   collaborator outcomes the run eventually reaches its end-of-run report
   (after the last candidate or after a quota halt); for an empty list the
   run ends at once, with no call made and no report. *)
C17_RunTerminates ==
    /\ [](/\ i \in 1..(Len(messages) + 1)
          /\ Listed => spy.lookup = (i - 1) + Done("lookup")
          /\ \A op \in DOMAIN spy : Done(op) \in {0, 1}
          /\ (Listed /\ messages = <<>>) => pc = "no_messages"
          /\ pc = "no_messages" =>
               (messages = <<>> /\ spy = NoCalls /\ ~ENABLED Next)
          /\ pc = "done" => ~ENABLED Next
          /\ (pc = "report" /\ ~QuotaHalted) => i = Len(messages) + 1)
    /\ [][/\ messages' # messages => (pc = "list" /\ messages = <<>>)
          /\ pc' = "list" => pc = "init"
          /\ i' \in {i, i + 1}
          /\ i' = i + 1 => (Listed /\ i <= Len(messages))
          /\ spy'.lookup # spy.lookup =>
               (pc = "lookup" /\ spy'.lookup = i /\ i <= Len(messages))
          /\ pc' = "report" => (pc \in {"lookup", "fetch", "sleep"} /\ i = Len(messages))
                                 \/ (pc = "quota" /\ i' = i)
          /\ pc' = "done" => pc = "report"]_vars
    /\ (Listed /\ messages # <<>>) ~> (pc = "done")
    /\ <>(~ENABLED Next)

\* the report is reached after a quota halt on the second of two candidates
C17_Witness ==
    /\ pc = "done"
    /\ Len(messages) = 2
    /\ i = 2
    /\ spy.lookup = 2
    /\ spy.classify = 1

(* C18: a failure to initialise a collaborator or to list the candidates is
   fatal: it can happen at either step, it ends the run as a raised failure
   with nothing after it, and in that case no identity has been looked up,
   fetched, submitted to the classifier or upserted, the store is as it
   was, the counters are zero and the ledger is at zero. *)
C18_SetupFailureIsFatal ==
    /\ [](/\ pc \in {"init", "list"} => ENABLED (Next /\ pc' = "fatal")
          /\ pc = "fatal" =>
               /\ ~ENABLED Next
               /\ spy = NoCalls
               /\ messages = <<>>
               /\ word_count = 0
               /\ emails_processed = 0
               /\ Total(stats) = 0)
    /\ [][/\ pc' = "fatal" =>
               /\ pc \in {"init", "list"}
               /\ UNCHANGED <<messages, store, ledger, stats, spy>>
          /\ pc = "init" => pc' \in {"list", "fatal"}
          /\ pc = "list" => pc' \in {"lookup", "no_messages", "fatal"}]_vars

\* the run has ended on a raised failure, over a store that held a row
C18_Witness ==
    /\ pc = "fatal"
    /\ spy = NoCalls
    /\ store # << >>
    /\ word_count = 0

(* C19: accounting of classifier calls.  At every point of a run the number
   of classifier calls made so far equals the ledger's emails_processed;
   and equals processed + skipped_rate_limit of the statistics (the call and
   the counting of its outcome are one step of the run); at most one call is made per iteration,
   and a failed call is not made again in the run. *)
C19_ClassifierCallAccounting ==
    /\ [](/\ spy.classify = emails_processed
          /\ spy.classify = stats.processed + stats.skipped_rate_limit
          /\ Done("classify") \in {0, 1}
          /\ Done("classify") = emails_processed - at_start.emails_processed
          /\ spy.classify <= i
          /\ spy.classify <= Len(messages))
    /\ [][/\ spy'.classify # spy.classify =>
               /\ pc = "classify"
               /\ Done("classify") = 0
               /\ spy'.classify = spy.classify + 1
               /\ emails_processed' = emails_processed + 1
               /\ stats'.processed + stats'.skipped_rate_limit
                    = stats.processed + stats.skipped_rate_limit + 1
          /\ (pc = "classify" /\ ClassifierFailed') =>
               (pc' = "upsert" /\ stats'.skipped_rate_limit = stats.skipped_rate_limit + 1)
          /\ (pc # "classify" /\ ClassifierFailed) =>
               (spy'.classify = spy.classify /\ emails_processed' = emails_processed)]_vars

\* two calls were made, one scored and one failed
C19_Witness ==
    /\ spy.classify = 2
    /\ emails_processed = 2
    /\ stats.processed = 1
    /\ stats.skipped_rate_limit = 1

====
